---- MODULE Spec2Model ----
(***************************************************************************)
(* A model of the acquisition-and-reconciliation pipeline of               *)
(* visa-wait-time: data.py (VisaWaitTimeData) and data_perm.py             *)
(* (ImmigrationData).                                                      *)
(*                                                                         *)
(* A pandas DataFrame is a sequence of rows (records); a missing value of  *)
(* a text column is Null and of a numeric column NaN.  A Python exception  *)
(* ends a call in the state "raised", with the exception's name in err.    *)
(* Each component has its own specification over the shared variables:     *)
(*   SpecCity   select_dup_cities, map_city_country        (data.py)       *)
(*   SpecOld    read_visa_wait_times_old                   (data.py)       *)
(*   SpecNew    read_visa_wait_times                       (data.py)       *)
(*   SpecDol    get_dol_data                               (data_perm.py)  *)
(*   SpecUscis  get_uscis_data's date conversion           (data_perm.py)  *)
(*   SpecWorld  read_world_cities                          (data.py)       *)
(*   SpecMain   main: VisaWaitTimeData(...) and its reads  (data.py)       *)
(*   SpecImm    ImmigrationData(...), get_uscis_data       (data_perm.py)  *)
(***************************************************************************)
EXTENDS Integers, Sequences, FiniteSets, TLC

VARIABLES
    city_df,     \* the gazetteer (world cities), a sequence of rows
    visa_df,     \* the wait-time table, a sequence of rows
    pc,          \* "start" | "selected" | "returned" | "raised"
    err,         \* name of the exception raised, or "none"
    cities_arg,  \* argument `cities` of a direct select_dup_cities call
    selected,    \* the frame a direct select_dup_cities call returned
    deferred,    \* null_df of the second pass: rows the alias table is consulted for
    unmapped,    \* the names printed as "Unmapped cities"
    artifact,    \* the frame map_city_country returned
    raw,         \* read_visa_wait_times_old: the scraped table, [header, cell]
    norm,        \* read_visa_wait_times_old: the table it returned
    html_columns, \* read_visa_wait_times: the value columns of the scraped table
    visa_columns, \* read_visa_wait_times: the column labels of the table it returned
    dol_perm,    \* get_dol_data: the tables read from the processing-times page
    dol_type,    \* get_dol_data: its argument data_type
    dol_out,     \* get_dol_data: what it returned
    pd_column,   \* get_uscis_data: a priority-date column of emp_based_pd
    pd_first,    \* the column after its first date conversion
    conversions, \* how many times the date conversion was applied to the column
    city_response, \* read_world_cities: what requests.get gave for SIMPLEMAP_URL
    unzipped,    \* read_world_cities: whether zipfile.ZipFile was called on the payload
    target,      \* read_world_cities: the member name it opened
    member,      \* read_world_cities: the position in the archive of the entry it read
    step,        \* main(): the statement it is at
    res_status,  \* __init__: the status of the wait-time page response, res.status_code
    update_date, \* __init__: self.update_date
    index_page,  \* the anchors of the bulletin index page marked btn btn-lg btn-success
    imm_step,    \* ImmigrationData.__init__: the statement it is at
    child_soup,  \* get_uscis_data: the anchor its last call selected
    emp_based_pd,       \* ImmigrationData: self.emp_based_pd
    emp_based_bulletin, \* ImmigrationData: self.emp_based_bulletin
    pwd_reviews, \* ImmigrationData: self.pwd_reviews
    perm_reviews \* ImmigrationData: self.perm_reviews

cityVars == <<city_df, visa_df, cities_arg, selected, deferred, unmapped, artifact>>
oldVars == <<raw, norm>>
newVars == <<html_columns, visa_columns>>
dolVars == <<dol_perm, dol_type, dol_out>>
uscisVars == <<pd_column, pd_first, conversions>>
worldVars == <<city_response, unzipped, target, member>>
mainVars == <<step, res_status, update_date>>
immVars == <<index_page, imm_step, child_soup, emp_based_pd, emp_based_bulletin,
             pwd_reviews, perm_reviews>>

vars == <<pc, err, cityVars, oldVars, newVars, dolVars, uscisVars, worldVars, mainVars, immVars>>

-----------------------------------------------------------------------------
(* Bounds *)

MaxCities == 2
MaxRows == 2
MaxWords == 3
MaxDays == 1
MaxColumns == 2
MaxMonths == 2
MaxCells == 2
MaxConversions == 2

-----------------------------------------------------------------------------
(* Values *)

\* missing value (NaN/None) of a text column
Null == "NaN"

\* missing value of the numeric column population
NaN == -1

\* data.py:24-44, the curated alias table raw City/Post -> city_ascii
MISSING_CITIES ==
    { <<"Chennai (Madras)", "Chennai">>,
      <<"Ciudad Juarez", "Juarez">>,
      <<"Curacao", "Willemstad">>,
      <<"Dar Es Salaam", "Dar es Salaam">>,
      <<"Kuwait", "Kuwait City">>,
      <<"Mexicali Tpf", "Mexicali">>,
      <<"Mumbai (Bombay)", "Mumbai">>,
      <<"N`Djamena", "N'Djamena">>,
      <<"Osaka/Kobe", "Osaka">>,
      <<"Port Au Prince", "Port-au-Prince">>,
      <<"Port Of Spain", "Port of Spain">>,
      <<"Quebec", "Quebec City">>,
      <<"Rio De Janeiro", "Rio de Janeiro">>,
      <<"St Georges", "Saint-Georges">>,
      <<"St Petersburg", "Saint Petersburg">>,
      <<"Tel Aviv", "Tel Aviv-Yafo">>,
      <<"Tijuana Tpf", "Tijuana">>,
      <<"Usun-New York", "New York">>,
      <<"Washington Refugee Processing Center", "Washington">> }

\* Series.map(MISSING_CITIES): the alias of a raw name, NaN when it has none
map_missing(post) ==
    IF \E p \in MISSING_CITIES : p[1] = post
    THEN (CHOOSE p \in MISSING_CITIES : p[1] = post)[2]
    ELSE Null

\* City/Post values of the wait-time table: two alias keys and a plain name
RawNames == {"Kuwait", "Quebec", "Paris"}

\* city_ascii values of the gazetteer: "Kuwait" is an alias key that is also a
\* city, "Kuwait City" its alias target; "Quebec City" is never in the gazetteer
GazNames == {"Kuwait", "Kuwait City", "Paris"}

Countries == {"Kuwait", "France"}

Populations == {NaN, 100, 500}

\* a gazetteer row without its coordinates
CityRecords == [city_ascii : GazNames, country : Countries, population : Populations]

\* the gazetteer rows with their coordinates: lat stands for (iso2, lat, lng),
\* which differ from row to row, and is the row's position in the gazetteer
WithLat(s) == [i \in 1..Len(s) |->
                 [lat |-> i, city_ascii |-> s[i].city_ascii,
                  country |-> s[i].country, population |-> s[i].population]]

SeqsUpTo(S, lo, hi) == UNION { [1..n -> S] : n \in lo..hi }

\* a wait-time row; row stands for the rest of the row (its wait-time cells)
WithRows(s) == [i \in 1..Len(s) |-> [row |-> i, post |-> s[i]]]

-----------------------------------------------------------------------------
(* pandas helpers *)

\* Series.unique(): distinct values in order of first appearance
unique(s) ==
    LET F[i \in 0..Len(s)] ==
          IF i = 0 THEN <<>>
          ELSE IF \E j \in 1..(i-1) : s[j] = s[i] THEN F[i-1]
               ELSE Append(F[i-1], s[i])
    IN F[Len(s)]

\* city_df[city_df["city_ascii"] == city]; NaN == x is False for every x
filter_city(df, city) ==
    SelectSeq(df, LAMBDA r : city # Null /\ r.city_ascii = city)

Perms(n) == { p \in [1..n -> 1..n] : \A i, j \in 1..n : i # j => p[i] # p[j] }

\* the order sort_values(by="population", ascending=True) would give (a mutation)
sort_values_ascending(rows) ==
    { [i \in 1..Len(rows) |-> rows[p[i]]] :
        p \in { q \in Perms(Len(rows)) :
                  \A i, j \in 1..Len(rows) : i < j =>
                     LET a == rows[q[i]].population
                         b == rows[q[j]].population
                     IN IF a = NaN THEN b = NaN /\ q[i] < q[j]
                        ELSE b = NaN \/ a <= b } }

\* df.sort_values(by="population", ascending=False): kind defaults to
\* "quicksort", which is not stable, so rows of equal population may come out
\* in any order; rows with a NaN population go last (na_position="last") and
\* stay in their original order (they are not passed to the sort).
sort_values(rows) ==
    { [i \in 1..Len(rows) |-> rows[p[i]]] :
        p \in { q \in Perms(Len(rows)) :
                  \A i, j \in 1..Len(rows) : i < j =>
                     LET a == rows[q[i]].population
                         b == rows[q[j]].population
                     IN IF a = NaN THEN b = NaN /\ q[i] < q[j]
                        ELSE b = NaN \/ a >= b } }

\* df.head(1)
head(rows) == IF rows = <<>> THEN <<>> ELSE <<rows[1]>>

Front(s) == SubSeq(s, 1, Len(s) - 1)
Last(s) == s[Len(s)]

\* select_dup_cities(city_df, cities): the frames it can return.  A frame is
\* [columns, rows]: pd.DataFrame() has no columns until a first concat with a
\* slice of city_df gives it city_df's.
RECURSIVE select_dup_cities(_, _)
select_dup_cities(df, cities) ==
    IF cities = <<>> THEN { [columns |-> FALSE, rows |-> <<>>] }
    ELSE { [columns |-> TRUE, rows |-> acc.rows \o head(s)] :
             acc \in select_dup_cities(df, Front(cities)),
             s \in sort_values(filter_city(df, Last(cities))) }

\* left.merge(right[["country", "city_ascii", "iso2", "lat", "lng"]], how="left")
\* on left[on] = right.city_ascii: every left row once per matching right row,
\* or once with NaN in the right columns when none matches (merge matches a
\* NaN key with a NaN key)
RECURSIVE merge_left(_, _, _)
merge_left(left, right, on) ==
    IF left = <<>> THEN <<>>
    ELSE LET l == left[1]
             m == SelectSeq(right, LAMBDA r : r.city_ascii = l[on])
             out == IF m = <<>>
                    THEN << [row |-> l.row, post |-> l.post,
                             city_ascii |-> IF on = "city_ascii" THEN l.city_ascii ELSE Null,
                             country |-> Null, lat |-> NaN] >>
                    ELSE [i \in 1..Len(m) |->
                            [row |-> l.row, post |-> l.post,
                             city_ascii |-> m[i].city_ascii,
                             country |-> m[i].country, lat |-> m[i].lat]]
         IN out \o merge_left(Tail(left), right, on)

column(df, name) == [i \in 1..Len(df) |-> df[i][name]]

isnull(r) == r.country = Null
notnull(r) == r.country # Null

\* data.py:166-167: the rows the first pass left without a country, their
\* right-hand columns dropped and city_ascii set from the alias table
second_pass_rows(df) ==
    LET n == SelectSeq(df, isnull)
    IN [i \in 1..Len(n) |->
          [row |-> n[i].row, post |-> n[i].post, city_ascii |-> map_missing(n[i].post)]]

\* data.py:173-177: report the names still without a country, return the rest
report_and_return(df, null_df) ==
    [pc |-> "returned", err |-> "none", deferred |-> null_df,
     unmapped |-> unique(column(SelectSeq(df, isnull), "post")),
     artifact |-> SelectSeq(df, notnull)]

KeyError(null_df) ==
    [pc |-> "raised", err |-> "KeyError", deferred |-> null_df,
     unmapped |-> <<>>, artifact |-> <<>>]

\* data.py:165-177, given the frame of the first pass
second_pass(cdf, df) ==
    LET null_df == second_pass_rows(df)
    IN { IF ~second.columns
         THEN KeyError(null_df)      \* line 170: a frame without columns
         ELSE report_and_return(
                 SelectSeq(df, notnull) \o merge_left(null_df, second.rows, "city_ascii"),
                 null_df) :
           second \in select_dup_cities(cdf, unique(column(null_df, "city_ascii"))) }

\* map_city_country(city_df, visa_df): the outcomes it can have
map_city_country(cdf, vdf) ==
    UNION { IF ~first.columns
            THEN { KeyError(<<>>) }    \* line 162: a frame without columns
            ELSE second_pass(cdf, merge_left(vdf, first.rows, "post")) :
              first \in select_dup_cities(cdf, unique(column(vdf, "post"))) }

-----------------------------------------------------------------------------
(* The variables of a component that a specification does not use *)

NoFrame == [columns |-> FALSE, rows |-> <<>>]

IdleCity ==
    /\ city_df = <<>> /\ visa_df = <<>> /\ cities_arg = <<>> /\ selected = NoFrame
    /\ deferred = <<>> /\ unmapped = <<>> /\ artifact = <<>>

IdleOld == raw = <<>> /\ norm = <<>>

IdleNew == html_columns = <<>> /\ visa_columns = <<>>

IdleDol == dol_perm = <<>> /\ dol_type = "none" /\ dol_out = <<>>

IdleUscis == pd_column = <<>> /\ pd_first = <<>> /\ conversions = 0

\* no response yet
NoResponse == [error |-> "unset"]

IdleWorld == city_response = NoResponse /\ unzipped = FALSE /\ target = <<>> /\ member = 0

IdleMain == step = "none" /\ res_status = 0 /\ update_date = "None"

\* a field no call has set
Unset == [pc |-> "unset"]

IdleImm ==
    /\ index_page = <<>> /\ imm_step = "none" /\ child_soup = Unset
    /\ emp_based_pd = Unset /\ emp_based_bulletin = Unset
    /\ pwd_reviews = Unset /\ perm_reviews = Unset

-----------------------------------------------------------------------------
(* SpecCity: the city resolver *)

\* main(): a gazetteer read_world_cities returned (never empty, data.py:92-93,
\* every row with a country) and a wait-time table with at least one row
InitCity ==
    /\ city_df \in { WithLat(s) : s \in SeqsUpTo(CityRecords, 1, MaxCities) }
    /\ visa_df \in { WithRows(s) : s \in SeqsUpTo(RawNames, 1, MaxRows) }
    /\ pc = "start"
    /\ err = "none"
    /\ cities_arg = <<>>
    /\ selected = NoFrame
    /\ deferred = <<>>
    /\ unmapped = <<>>
    /\ artifact = <<>>
    /\ IdleOld /\ IdleNew /\ IdleDol /\ IdleUscis
    /\ IdleWorld /\ IdleMain /\ IdleImm

\* a direct call VisaWaitTimeData.select_dup_cities(city_df, cities)
SelectDupCities ==
    /\ pc = "start"
    /\ \E cities \in { unique(column(visa_df, "post")) } \cup { <<n>> : n \in GazNames } :
         /\ cities_arg' = cities
         /\ selected' \in select_dup_cities(city_df, cities)
    /\ pc' = "selected"
    /\ UNCHANGED <<city_df, visa_df, err, deferred, unmapped, artifact, oldVars, newVars, dolVars, uscisVars, worldVars, mainVars, immVars>>

\* a call map_city_country(city_df, visa_df)
MapCityCountry ==
    /\ pc = "start"
    /\ \E out \in map_city_country(city_df, visa_df) :
         /\ pc' = out.pc
         /\ err' = out.err
         /\ deferred' = out.deferred
         /\ unmapped' = out.unmapped
         /\ artifact' = out.artifact
    /\ UNCHANGED <<city_df, visa_df, cities_arg, selected, oldVars, newVars, dolVars, uscisVars, worldVars, mainVars, immVars>>

NextCity == SelectDupCities \/ MapCityCountry

SpecCity == InitCity /\ [][NextCity]_vars

-----------------------------------------------------------------------------
(* Properties of the city resolver *)

Range(s) == { s[i] : i \in 1..Len(s) }

\* population a counts as greater than b: a missing population is the least
Greater(a, b) == a # NaN /\ (b = NaN \/ a > b)

SameName(cdf, name) == { r \in Range(cdf) : r.city_ascii = name }

\* the gazetteer rows of a name that no row of that name exceeds in population
MaxPopRecords(cdf, name) ==
    { r \in SameName(cdf, name) :
        \A o \in SameName(cdf, name) : ~Greater(o.population, r.population) }

DirectMatch(post) == SameName(city_df, post) # {}
AliasMatch(post) == ~DirectMatch(post) /\ SameName(city_df, map_missing(post)) # {}
Resolves(post) == DirectMatch(post) \/ AliasMatch(post)

Occurrences(df, i) == { k \in 1..Len(df) : df[k].row = i }

MapCalled == pc \in {"returned", "raised"}

\* the artifact holds exactly the resolvable input rows, each once, each with
\* the country of a gazetteer row of the name it resolved to
ArtifactExact ==
    /\ \A i \in 1..Len(visa_df) :
         Cardinality(Occurrences(artifact, i)) = IF Resolves(visa_df[i].post) THEN 1 ELSE 0
    /\ \A k \in 1..Len(artifact) :
         /\ artifact[k].row \in 1..Len(visa_df)
         /\ artifact[k].post = visa_df[artifact[k].row].post
         /\ artifact[k].country # Null
         /\ \E r \in SameName(city_df, artifact[k].city_ascii) :
              r.country = artifact[k].country /\ r.lat = artifact[k].lat

\* C1: for every gazetteer and wait-time table, the result of map_city_country
\* holds exactly the input rows whose City/Post resolves in the direct or the
\* alias pass, each exactly once with one non-null country, and no other row.
C1_ResultExact == MapCalled => (pc = "returned" /\ ArtifactExact)

\* What remains of C1 when the call returns: every returned artifact is exact.
C1_ReturnedExact == pc = "returned" => ArtifactExact

\* C2: for every name of `cities` that several gazetteer rows share,
\* select_dup_cities returns exactly one row of that name, and no row of that
\* name has a strictly greater population than the returned one.
C2_MaxPopulation ==
    pc = "selected" =>
      \A n \in Range(cities_arg) :
         SameName(city_df, n) # {} =>
            /\ Cardinality({ k \in 1..Len(selected.rows) : selected.rows[k].city_ascii = n }) = 1
            /\ \A k \in 1..Len(selected.rows) :
                 selected.rows[k].city_ascii = n => selected.rows[k] \in MaxPopRecords(city_df, n)

\* C2's case: CityA with populations 100 and 500, the 500 row returned
C2_Witness ==
    /\ pc = "selected"
    /\ \E n \in Range(cities_arg) :
         /\ \E r \in SameName(city_df, n) : r.population = 100
         /\ \E k \in 1..Len(selected.rows) :
              selected.rows[k].city_ascii = n /\ selected.rows[k].population = 500

\* C3: when several rows of a name tie for the highest population, the row
\* select_dup_cities chooses is the one that comes first in the gazetteer.
C3_TieFirstSeen ==
    pc = "selected" =>
      \A k \in 1..Len(selected.rows) :
         \A r \in MaxPopRecords(city_df, selected.rows[k].city_ascii) :
            selected.rows[k].lat <= r.lat

\* C4: a City/Post with an exact city_ascii match is resolved to a
\* max-population row of that exact name, never to its alias target's row.
C4_ExactMatchWins ==
    MapCalled =>
      \A i \in 1..Len(visa_df) :
         DirectMatch(visa_df[i].post) =>
            \E k \in 1..Len(artifact) :
               /\ artifact[k].row = i
               /\ artifact[k].city_ascii = visa_df[i].post
               /\ \E r \in MaxPopRecords(city_df, visa_df[i].post) :
                    r.lat = artifact[k].lat /\ r.country = artifact[k].country

\* What remains of C4 in every call: the alias table is consulted only for rows
\* without an exact match, and a returned row with one carries that match.
C4_AliasOnlyForDeferred ==
    /\ \A k \in 1..Len(deferred) : ~DirectMatch(deferred[k].post)
    /\ \A k \in 1..Len(artifact) :
         DirectMatch(artifact[k].post) =>
            /\ artifact[k].city_ascii = artifact[k].post
            /\ \E r \in MaxPopRecords(city_df, artifact[k].post) :
                 r.lat = artifact[k].lat /\ r.country = artifact[k].country

\* C5: for every non-empty wait-time table and non-empty gazetteer,
\* map_city_country returns an artifact and does not raise.
C5_NeverRaises ==
    (Len(visa_df) > 0 /\ Len(city_df) > 0) => pc # "raised"

\* the only way map_city_country raises on a non-empty table: no row deferred
C5_RaisesIffNoneDeferred ==
    (MapCalled /\ Len(visa_df) > 0) =>
       (pc = "raised" <=> \A i \in 1..Len(visa_df) : DirectMatch(visa_df[i].post))

-----------------------------------------------------------------------------
(* SpecOld: read_visa_wait_times_old, the day-count normalizer *)

\* A cell is blank (NA), a text or a number.  A text is its words in order,
\* joined by single spaces; the words below are the ones the code looks for.
NA == [kind |-> "nan"]
Str(w) == [kind |-> "str", words |-> w]
Float(n) == [kind |-> "float", value |-> n]

\* data.py:108
ClosurePhrases == {"Closed", "Non-Visa Processing Post", "Emergency Appointments Only"}

\* the words that contain "Day" (data.py:111)
DayWords == {"Day", "Days"}

Numerals == { ToString(n) : n \in 0..MaxDays }

Words == {"Same"} \cup DayWords \cup ClosurePhrases \cup Numerals

RawCells == {NA} \cup { Str(w) : w \in SeqsUpTo(Words, 1, MaxWords) }

\* a column header: the words "Interview Required" or not, then the category
RawHeaders == { <<"Interview Required", "Visitors (B1/B2)">>, <<"Visitors (B1/B2)">> }

\* pd.read_html: the dtype of a one-cell column; a cell that is a bare number
\* is parsed as one
read_html_dtype(cell) ==
    IF cell = NA THEN "float64"
    ELSE IF Len(cell.words) = 1 /\ cell.words[1] \in Numerals THEN "int64"
    ELSE "object"

\* Series.fillna("")
fillna(cell) == IF cell = NA THEN Str(<<>>) ELSE cell

\* Series.str.contains("Same Day")
contains_same_day(cell) ==
    \E i \in 1..(Len(cell.words) - 1) :
       cell.words[i] = "Same" /\ cell.words[i + 1] \in DayWords

\* Series.str.contains("Closed|Non-Visa Processing Post|Emergency Appointments Only")
contains_str_time(cell) ==
    \E i \in 1..Len(cell.words) : cell.words[i] \in ClosurePhrases

\* data.py:107: df[col].where(~df[col].str.contains("Same Day"), "0 Day")
same_day_to_zero(cell) ==
    IF contains_same_day(cell) THEN Str(<<"0", "Day">>) ELSE cell

\* data.py:109: df[col].where(~df[col].str.contains(str_time), np.nan)
closure_to_nan(cell) == IF contains_str_time(cell) THEN NA ELSE cell

\* a mutation of split_day: the text split at "Days"
split_days(cell) ==
    IF cell = NA THEN NA
    ELSE LET at == { i \in 1..Len(cell.words) : cell.words[i] = "Days" }
         IN IF at = {} THEN cell
            ELSE Str(SubSeq(cell.words, 1, (CHOOSE i \in at : \A j \in at : i <= j) - 1))

\* data.py:111: df[col].str.split("Day", expand=True)[0].str.strip(), the text
\* before the first "Day"; NaN stays NaN
split_day(cell) ==
    IF cell = NA THEN NA
    ELSE LET at == { i \in 1..Len(cell.words) : cell.words[i] \in DayWords }
         IN IF at = {} THEN cell
            ELSE Str(SubSeq(cell.words, 1, (CHOOSE i \in at : \A j \in at : i <= j) - 1))

\* data.py:112: np.where(df[col] == "", np.nan, df[col])
empty_to_nan(cell) == IF cell = Str(<<>>) THEN NA ELSE cell

\* float(text) succeeds on one numeral
is_float(cell) == cell = NA \/ (Len(cell.words) = 1 /\ cell.words[1] \in Numerals)

\* data.py:113: df[col].astype("float")
astype_float(cell) ==
    IF cell = NA THEN NA
    ELSE Float(CHOOSE n \in 0..MaxDays : ToString(n) = cell.words[1])

\* data.py:118-120: the header without its "Interview Required"
rename_header(header) ==
    IF header[1] = "Interview Required" THEN header[2] ELSE header[1]

\* read_visa_wait_times_old() on a page whose table is one row of one value
\* column: what it returns or raises
read_visa_wait_times_old(table) ==
    IF read_html_dtype(table.cell) = "int64"
    THEN [pc |-> "raised", err |-> "AttributeError", norm |-> <<>>]   \* line 107: .str
    ELSE LET cell == empty_to_nan(split_day(closure_to_nan(same_day_to_zero(fillna(table.cell)))))
         IN IF ~is_float(cell)
            THEN [pc |-> "raised", err |-> "ValueError", norm |-> <<>>]   \* line 113
            ELSE [pc |-> "returned", err |-> "none",
                  norm |-> [columns |-> <<"asof_date", "update_date", "City/Post",
                                          rename_header(table.header)>>,
                            cell |-> astype_float(cell)]]

\* the page's table: one row, one value column
InitOld ==
    /\ raw \in [header : RawHeaders, cell : RawCells]
    /\ norm = <<>>
    /\ pc = "start"
    /\ err = "none"
    /\ IdleCity /\ IdleNew /\ IdleDol /\ IdleUscis
    /\ IdleWorld /\ IdleMain /\ IdleImm

ReadVisaWaitTimesOld ==
    /\ pc = "start"
    /\ LET out == read_visa_wait_times_old(raw)
       IN /\ pc' = out.pc
          /\ err' = out.err
          /\ norm' = out.norm
    /\ UNCHANGED <<raw, cityVars, newVars, dolVars, uscisVars, worldVars, mainVars, immVars>>

NextOld == ReadVisaWaitTimesOld

SpecOld == InitOld /\ [][NextOld]_vars

OldCalled == pc \in {"returned", "raised"}

\* C6: a raw cell that contains a closure/appointment-only phrase, whatever
\* else it contains, is normalized to the null marker, never to a number.
C6_ClosureIsNull ==
    (OldCalled /\ raw.cell # NA /\ contains_str_time(raw.cell)) =>
       (pc = "returned" /\ norm.cell = NA)

\* What remains of C6: a closure cell without "Same Day" is normalized to null.
C6_ClosureWithoutSameDayIsNull ==
    (OldCalled /\ raw.cell # NA /\ contains_str_time(raw.cell)
       /\ ~contains_same_day(raw.cell)) =>
       (pc = "returned" /\ norm.cell = NA)

\* C7: "<N> Day" and "<N> Days" normalize to the number N, "Same Day" to
\* exactly 0, a blank cell to null.
C7_DayCount ==
    OldCalled =>
       /\ \A n \in 0..MaxDays : \A d \in DayWords :
            raw.cell = Str(<<ToString(n), d>>) => (pc = "returned" /\ norm.cell = Float(n))
       /\ raw.cell = Str(<<"Same", "Day">>) => (pc = "returned" /\ norm.cell = Float(0))
       /\ raw.cell = NA => (pc = "returned" /\ norm.cell = NA)

\* C7's case: "1 Days" normalized to 1
C7_Witness ==
    pc = "returned" /\ raw.cell = Str(<<"1", "Days">>) /\ norm.cell = Float(1)

-----------------------------------------------------------------------------
(* SpecNew: read_visa_wait_times, the header-to-category mapping *)

\* the label Python's None gives a column
None == "None"

\* data.py:46-50
VISA_TYPES ==
    { <<"H,L,O,P,Q", "Petition-Based (H,L,O,P,Q)">>,
      <<"F,M,J", "Study and Exchange (F,M,J)">>,
      <<"C,D,C1/D", "Crew and Transit (C,D,C1/D)">>,
      <<"B1/B2", "Tourism and Visit (B1/B2)">> }

VisaCodes == { p[1] : p \in VISA_TYPES }
VisaCategories == { p[2] : p \in VISA_TYPES }

\* VISA_TYPES.get(visa_type)
visa_types_get(code) ==
    IF code \in VisaCodes THEN (CHOOSE p \in VISA_TYPES : p[1] = code)[2] ELSE None

\* A value column of the scraped table: whether its header contains "Average
\* wait times", the text of the header's first parenthesized group (None when
\* it has no parentheses), and whether read_html parsed its cells as numbers.
\* "H, L, O, P, Q" is a code that VISA_TYPES does not have.
HeaderCodes == VisaCodes \cup {"H, L, O, P, Q", None}

HtmlColumns == [average : BOOLEAN, code : HeaderCodes, numeric : BOOLEAN]

\* read_html gives every column its own label
DistinctHeaders(cols) ==
    \A i, j \in 1..Len(cols) :
       (i # j) => (cols[i].average # cols[j].average \/ cols[i].code # cols[j].code)

\* data.py:127-136, from column i on, the labels so far in `labels`: what the
\* loop ends with, the labels or the exception
RECURSIVE rename_columns(_, _, _)
rename_columns(cols, i, labels) ==
    IF i > Len(cols) THEN [pc |-> "returned", err |-> "none", labels |-> labels]
    ELSE IF cols[i].numeric
    THEN [pc |-> "raised", err |-> "AttributeError", labels |-> <<>>]   \* line 129: .str
    ELSE IF cols[i].average
    THEN rename_columns(cols, i + 1, labels)                             \* line 133: drop
    ELSE IF cols[i].code = None
    THEN [pc |-> "raised", err |-> "AttributeError", labels |-> <<>>]   \* line 135: .group
    ELSE rename_columns(cols, i + 1, Append(labels, visa_types_get(cols[i].code)))

\* read_visa_wait_times(): the labels of the frame it returns, or the exception
read_visa_wait_times(cols) ==
    LET out == rename_columns(cols, 1, <<"City/Post">>)
    IN IF out.pc = "raised" THEN out
       ELSE [pc |-> "returned", err |-> "none",
             labels |-> out.labels \o <<"asof_date", "update_date">>]

InitNew ==
    /\ html_columns \in { c \in SeqsUpTo(HtmlColumns, 1, MaxColumns) : DistinctHeaders(c) }
    /\ visa_columns = <<>>
    /\ pc = "start"
    /\ err = "none"
    /\ IdleCity /\ IdleOld /\ IdleDol /\ IdleUscis
    /\ IdleWorld /\ IdleMain /\ IdleImm

ReadVisaWaitTimes ==
    /\ pc = "start"
    /\ LET out == read_visa_wait_times(html_columns)
       IN /\ pc' = out.pc
          /\ err' = out.err
          /\ visa_columns' = out.labels
    /\ UNCHANGED <<html_columns, cityVars, oldVars, dolVars, uscisVars, worldVars, mainVars, immVars>>

NextNew == ReadVisaWaitTimes

SpecNew == InitNew /\ [][NextNew]_vars

\* the labels of the value columns of the returned frame
ValueLabels == SubSeq(visa_columns, 2, Len(visa_columns) - 2)

\* C8: a column whose header's code is not a key of VISA_TYPES is removed from
\* the output; no output column is named None, and every remaining value
\* column is named by a VISA_TYPES category.
C8_UnknownCodeDropped ==
    pc = "returned" =>
       /\ \A k \in 1..Len(visa_columns) : visa_columns[k] # None
       /\ \A k \in 1..Len(ValueLabels) : ValueLabels[k] \in VisaCategories
       /\ Len(ValueLabels) <=
            Cardinality({ i \in 1..Len(html_columns) : html_columns[i].code \in VisaCodes })

\* What the code does instead: the only columns it drops are the "Average wait
\* times" ones; every other column is kept, named by VISA_TYPES.get of its code.
C8_OnlyAverageDropped ==
    pc = "returned" =>
       LET kept == SelectSeq(html_columns, LAMBDA c : ~c.average)
       IN /\ Len(ValueLabels) = Len(kept)
          /\ \A k \in 1..Len(kept) : ValueLabels[k] = visa_types_get(kept[k].code)

-----------------------------------------------------------------------------
(* SpecDol: get_dol_data, the processing-queue aggregator *)

MonthNames ==
    << "January", "February", "March", "April", "May", "June", "July",
       "August", "September", "October", "November", "December" >>

\* a Receipt Month as the page prints it, "%B %Y"
ReceiptMonths ==
    { [name |-> "January", year |-> 2024], [name |-> "February", year |-> 2024],
      [name |-> "December", year |-> 2023] }

RemainingRequests == {50, 100}

\* data_perm.py:38: pd.to_datetime(text, format="%B %Y").dt.strftime("%Y-%m"),
\* the month as [y, m]; "%Y-%m" strings order as (y, m) does
to_year_month(text) ==
    [y |-> text.year, m |-> CHOOSE k \in 1..12 : MonthNames[k] = text.name]

\* a receipt-queue series: one row per month
SeriesRows == [month : ReceiptMonths, remaining : RemainingRequests]

OneRowPerMonth(series) ==
    \A i, j \in 1..Len(series) : i # j => series[i].month # series[j].month

Series == { q \in SeqsUpTo(SeriesRows, 1, MaxMonths) : OneRowPerMonth(q) }

\* pd.merge(..., how="inner"): only the months of both series (a mutation)
merge_inner(left, right) ==
    LET match(l) == SelectSeq(right, LAMBDA r : r.month = l.month)
        F[i \in 0..Len(left)] ==
          IF i = 0 THEN <<>>
          ELSE F[i-1] \o [k \in 1..Len(match(left[i])) |->
                            [month |-> left[i].month, hib |-> left[i].remaining,
                             perm |-> match(left[i])[k].remaining]]
    IN F[Len(left)]

\* data_perm.py:37: pd.merge(pwd_h1b, pwd_perm, on="Receipt Month", how="outer",
\* suffixes=["_hib", "_perm"]): a row for every pair of rows with the same
\* month, and a row with NaN on the other side for every row without a match
merge_outer(left, right) ==
    LET match(l) == SelectSeq(right, LAMBDA r : r.month = l.month)
        F[i \in 0..Len(left)] ==
          IF i = 0 THEN <<>>
          ELSE F[i-1] \o
               (IF match(left[i]) = <<>>
                THEN << [month |-> left[i].month, hib |-> left[i].remaining, perm |-> NaN] >>
                ELSE [k \in 1..Len(match(left[i])) |->
                        [month |-> left[i].month, hib |-> left[i].remaining,
                         perm |-> match(left[i])[k].remaining]])
        rest == SelectSeq(right, LAMBDA r : \A i \in 1..Len(left) : left[i].month # r.month)
    IN F[Len(left)] \o
       [k \in 1..Len(rest) |-> [month |-> rest[k].month, hib |-> NaN, perm |-> rest[k].remaining]]

\* data_perm.py:38: the Receipt Month column converted
convert_months(df) ==
    [i \in 1..Len(df) |->
       [month |-> to_year_month(df[i].month), hib |-> df[i].hib, perm |-> df[i].perm]]

After(a, b) == a.y > b.y \/ (a.y = b.y /\ a.m > b.m)

\* data_perm.py:39: pwd.sort_values("Receipt Month", ascending=False); rows of
\* the same month may come out in any order
sort_months(df) ==
    { [i \in 1..Len(df) |-> df[p[i]]] :
        p \in { q \in Perms(Len(df)) :
                  \A i, j \in 1..Len(df) :
                     i < j => ~After(df[q[j]].month, df[q[i]].month) } }

\* the tables of the page that get_dol_data reads: [3] and [5] the two
\* receipt-queue series, [6] the review queues (the Processing Queue of each
\* row), [7] the average processing time (Calendar Days of its first row)
ReviewQueues ==
    { <<"Analyst Review">>, <<"Analyst Review", "Audit Review">>,
      <<"Audit Review", "Analyst Review">> }

CalendarDays == {NaN, 483}

DolTables ==
    [pwd_h1b : Series, pwd_perm : Series,
     perm_review : ReviewQueues, calendar_days : CalendarDays]

\* get_dol_data(data_type): the outcomes it can have
get_dol_data(tables, data_type) ==
    IF tables.perm_review[1] # "Analyst Review"
    THEN { [pc |-> "raised", err |-> "KeyError", out |-> <<>>] }     \* line 42: .loc[0, ...]
    ELSE IF tables.calendar_days = NaN
    THEN { [pc |-> "raised", err |-> "ValueError", out |-> <<>>] }   \* line 46: int(nan)
    ELSE IF data_type = "PWD"
    THEN { [pc |-> "returned", err |-> "none", out |-> pwd] :
             pwd \in sort_months(convert_months(merge_outer(tables.pwd_h1b, tables.pwd_perm))) }
    ELSE IF data_type = "PERM"
    THEN { [pc |-> "returned", err |-> "none",
            out |-> << [review_row |-> 1, days |-> tables.calendar_days] >>] }
    ELSE { [pc |-> "raised", err |-> "ValueError", out |-> <<>>] }   \* line 57

InitDol ==
    /\ dol_perm \in DolTables
    /\ dol_type = "none"
    /\ dol_out = <<>>
    /\ pc = "start"
    /\ err = "none"
    /\ IdleCity /\ IdleOld /\ IdleNew /\ IdleUscis
    /\ IdleWorld /\ IdleMain /\ IdleImm

GetDolData ==
    /\ pc = "start"
    /\ \E data_type \in {"PWD", "PERM", "GC"} :
         /\ dol_type' = data_type
         /\ \E o \in get_dol_data(dol_perm, data_type) :
              /\ pc' = o.pc
              /\ err' = o.err
              /\ dol_out' = o.out
    /\ UNCHANGED <<dol_perm, cityVars, oldVars, newVars, uscisVars, worldVars, mainVars, immVars>>

NextDol == GetDolData

SpecDol == InitDol /\ [][NextDol]_vars

\* the months of a series, converted
MonthsOf(series) == { to_year_month(series[i].month) : i \in 1..Len(series) }

\* the remaining requests a series has for a month, NaN when it has none
RemainingIn(series, ym) ==
    IF ym \in MonthsOf(series)
    THEN (CHOOSE r \in Range(series) : to_year_month(r.month) = ym).remaining
    ELSE NaN

\* C9: the table get_dol_data("PWD") returns has exactly one row for every
\* month of the union of the two series, with each series' value for that
\* month, null where the series has no row for it.
C9_OuterJoin ==
    (pc = "returned" /\ dol_type = "PWD") =>
       LET union == MonthsOf(dol_perm.pwd_h1b) \cup MonthsOf(dol_perm.pwd_perm)
       IN /\ Len(dol_out) = Cardinality(union)
          /\ { dol_out[k].month : k \in 1..Len(dol_out) } = union
          /\ \A k \in 1..Len(dol_out) :
               /\ dol_out[k].hib = RemainingIn(dol_perm.pwd_h1b, dol_out[k].month)
               /\ dol_out[k].perm = RemainingIn(dol_perm.pwd_perm, dol_out[k].month)

\* C9's case: a month of only the first series, a month of only the second
\* and a month of both, in one returned table
C9_Witness ==
    /\ pc = "returned" /\ dol_type = "PWD"
    /\ \E k \in 1..Len(dol_out) : dol_out[k].hib # NaN /\ dol_out[k].perm = NaN
    /\ \E k \in 1..Len(dol_out) : dol_out[k].hib = NaN /\ dol_out[k].perm # NaN
    /\ \E k \in 1..Len(dol_out) : dol_out[k].hib # NaN /\ dol_out[k].perm # NaN

-----------------------------------------------------------------------------
(* SpecUscis: the date conversion of get_uscis_data *)

\* A bulletin cell: a token DDMMMYY such as 01JAN23, another text such as C or
\* U, an ISO date YYYY-MM-DD (what the conversion writes), or NaN.
Token(d, b, y) == [kind |-> "token", d |-> d, b |-> b, y |-> y]
Text(t) == [kind |-> "text", text |-> t]
Iso(y, m, d) == [kind |-> "iso", y |-> y, m |-> m, d |-> d]

MonthAbbrs ==
    << "JAN", "FEB", "MAR", "APR", "MAY", "JUN", "JUL", "AUG", "SEP", "OCT", "NOV", "DEC" >>

Sentinels == { Text("C"), Text("U"), Text("Current"), Text("Unavailable") }

BulletinCells ==
    { Token(d, b, y) : d \in {1, 29, 31}, b \in {"JAN", "FEB"}, y \in {23, 24, 99} }
       \cup Sentinels \cup {NA}

\* %y: 69-99 are 1969-1999, 00-68 are 2000-2068
full_year(yy) == IF yy >= 69 THEN 1900 + yy ELSE 2000 + yy

days_in_month(y, m) ==
    IF m = 2 THEN (IF y % 4 = 0 /\ (y % 100 # 0 \/ y % 400 = 0) THEN 29 ELSE 28)
    ELSE IF m \in {4, 6, 9, 11} THEN 30 ELSE 31

\* whether strptime(cell, "%d%b%y") succeeds: only a DDMMMYY token of a real
\* day does; an ISO date, another text and NaN do not
parses(cell) ==
    /\ cell.kind = "token"
    /\ \E m \in 1..12 : MonthAbbrs[m] = cell.b
    /\ cell.d >= 1
    /\ cell.d <= days_in_month(full_year(cell.y), CHOOSE m \in 1..12 : MonthAbbrs[m] = cell.b)

\* data_perm.py:89 on one cell: pd.to_datetime(cell, format="%d%b%y",
\* errors="coerce") and then .dt.strftime("%Y-%m-%d"); NaT becomes NaN
convert_date(cell) ==
    IF parses(cell)
    THEN Iso(full_year(cell.y), CHOOSE m \in 1..12 : MonthAbbrs[m] = cell.b, cell.d)
    ELSE NA

\* data_perm.py:89 on a column
convert_dates(col) == [i \in 1..Len(col) |-> convert_date(col[i])]

InitUscis ==
    /\ pd_column \in SeqsUpTo(BulletinCells, 1, MaxCells)
    /\ pd_first = <<>>
    /\ conversions = 0
    /\ pc = "start"
    /\ err = "none"
    /\ IdleCity /\ IdleOld /\ IdleNew /\ IdleDol
    /\ IdleWorld /\ IdleMain /\ IdleImm

\* the conversion applied to the column: by get_uscis_data the first time,
\* to its own output after that
ConvertDates ==
    /\ conversions < MaxConversions
    /\ pd_column' = convert_dates(pd_column)
    /\ pd_first' = IF conversions = 0 THEN convert_dates(pd_column) ELSE pd_first
    /\ conversions' = conversions + 1
    /\ pc' = "returned"
    /\ UNCHANGED <<err, cityVars, oldVars, newVars, dolVars, worldVars, mainVars, immVars>>

NextUscis == ConvertDates

SpecUscis == InitUscis /\ [][NextUscis]_vars

\* C10: the date conversion is idempotent: applied to its own output it
\* returns that output unchanged (an ISO date stays, a sentinel's null stays).
C10_Idempotent == conversions >= 2 => pd_column = pd_first

\* What remains of C10: a sentinel or an unparseable token is null after the
\* first conversion and after every later one, and no conversion raises.
C10_SentinelStaysNull ==
    conversions >= 1 =>
       /\ pc = "returned"
       /\ \A i \in 1..Len(pd_column) : pd_first[i] = NA => pd_column[i] = NA

\* What the code does to its own output: every cell is null from the second
\* conversion on.
C10_SecondConversionNulls ==
    conversions >= 2 => \A i \in 1..Len(pd_column) : pd_column[i] = NA

-----------------------------------------------------------------------------
(* SpecWorld: read_world_cities, the gazetteer loader *)

MaxEntries == 2

\* A Python string or bytes value is the sequence of its characters.
UpperCase ==
    << "A", "B", "C", "D", "E", "F", "G", "H", "I", "J", "K", "L", "M",
       "N", "O", "P", "Q", "R", "S", "T", "U", "V", "W", "X", "Y", "Z" >>
LowerCase ==
    << "a", "b", "c", "d", "e", "f", "g", "h", "i", "j", "k", "l", "m",
       "n", "o", "p", "q", "r", "s", "t", "u", "v", "w", "x", "y", "z" >>

\* str.lower()
lower(s) ==
    [i \in 1..Len(s) |->
       IF \E k \in DOMAIN UpperCase : UpperCase[k] = s[i]
       THEN LowerCase[CHOOSE k \in DOMAIN UpperCase : UpperCase[k] = s[i]]
       ELSE s[i]]

\* s.endswith(suffix)
endswith(s, suffix) ==
    /\ Len(s) >= Len(suffix)
    /\ SubSeq(s, Len(s) - Len(suffix) + 1, Len(s)) = suffix

\* sub in s
contains(s, sub) ==
    \E i \in 1..(Len(s) - Len(sub) + 1) : SubSeq(s, i, i + Len(sub) - 1) = sub

ZIP == << "z", "i", "p" >>
PK == << "P", "K" >>
CSV == << ".", "c", "s", "v" >>

\* data.py:83, target = "worldcities.csv"
WORLDCITIES == << "w", "o", "r", "l", "d", "c", "i", "t", "i", "e", "s", ".", "c", "s", "v" >>

\* names of archive members: the expected one, a .csv, a .CSV and a file that
\* is no table
MemberNames ==
    { WORLDCITIES, << "a", ".", "c", "s", "v" >>, << "B", ".", "C", "S", "V" >>,
      << "n", ".", "t", "x", "t" >> }

\* the gazetteers a member can hold
Gazetteers ==
    { WithLat(<< [city_ascii |-> "Kuwait City", country |-> "Kuwait", population |-> 500] >>),
      WithLat(<< [city_ascii |-> "Paris", country |-> "France", population |-> 100],
                 [city_ascii |-> "Kuwait", country |-> "Kuwait", population |-> NaN] >>) }

\* a member's content as pd.read_csv sees it: no bytes at all (header FALSE),
\* a header line only, or a header line and rows
CsvFiles ==
    { [header |-> FALSE, rows |-> <<>>], [header |-> TRUE, rows |-> <<>>] }
       \cup { [header |-> TRUE, rows |-> g] : g \in Gazetteers }

\* the entries of a zip archive, in the order of its directory; two entries
\* may carry the same name
Archives(n) == SeqsUpTo([name : MemberNames, csv : CsvFiles], 0, n)

\* r.content: its first bytes, whether zipfile.ZipFile accepts it (it raises
\* BadZipFile otherwise) and the archive it then is: a zip archive (which
\* starts with PK), a PK payload that is damaged, an HTML page
Contents(n) ==
    { [head |-> PK, zip |-> TRUE, archive |-> a] : a \in Archives(n) }
       \cup { [head |-> PK, zip |-> FALSE, archive |-> <<>>],
               [head |-> << "<", "!" >>, zip |-> FALSE, archive |-> <<>>] }

\* r.headers.get("Content-Type") or "": "" when the header is missing
NoHeader == <<>>
ContentTypes ==
    { << "a", "p", "p", "l", "i", "c", "a", "t", "i", "o", "n", "/", "z", "i", "p" >>,
      << "a", "p", "p", "l", "i", "c", "a", "t", "i", "o", "n", "/", "Z", "I", "P" >>,
      << "t", "e", "x", "t", "/", "h", "t", "m", "l" >>,
      NoHeader }

\* requests.get raised (timeout, connection refused): there is no response
ConnectionError ==
    [error |-> "ConnectionError", status |-> 0, ctype |-> NoHeader,
     content |-> [head |-> <<>>, zip |-> FALSE, archive |-> <<>>]]

\* what requests.get(SIMPLEMAP_URL) can give
Responses(n) ==
    [error : {"none"}, status : {200, 503}, ctype : ContentTypes, content : Contents(n)]
       \cup {ConnectionError}

\* data.py:73
ctype_of(resp) == lower(resp.ctype)

\* the check with "and" between the two archive tests (a mutation)
is_archive_both(resp) ==
    resp.status = 200 /\ (contains(ctype_of(resp), ZIP) /\ SubSeq(resp.content.head, 1, 2) = PK)

\* data.py:76, negated: the response is taken for a zip archive
is_archive(resp) ==
    resp.status = 200 /\ (contains(ctype_of(resp), ZIP) \/ SubSeq(resp.content.head, 1, 2) = PK)

\* z.namelist()
namelist(z) == [i \in 1..Len(z) |-> z[i].name]

\* data.py:86
csv_names(names) == SelectSeq(names, LAMBDA n : endswith(lower(n), CSV))

\* z.open(name): of the entries of that name, the last one of the directory
z_open(z, name) == CHOOSE i \in 1..Len(z) : z[i].name = name /\ \A j \in (i+1)..Len(z) : z[j].name # name

\* data.py:96-98: every exception leaves as RuntimeError
RuntimeError(unz, tgt, m) ==
    [pc |-> "raised", err |-> "RuntimeError", df |-> <<>>,
     unzipped |-> unz, target |-> tgt, member |-> m]

\* data.py:90-94 for the member `tgt` of the archive z
load_csv(z, tgt) ==
    LET m == z_open(z, tgt)
        f == z[m].csv
    IN IF ~f.header THEN RuntimeError(TRUE, tgt, m)             \* read_csv: EmptyDataError
       ELSE IF f.rows = <<>> THEN RuntimeError(TRUE, tgt, m)    \* line 93
       ELSE [pc |-> "returned", err |-> "none", df |-> f.rows,
             unzipped |-> TRUE, target |-> tgt, member |-> m]

\* read_world_cities(): how it ends for the response resp
read_world_cities(resp) ==
    IF resp.error # "none" THEN RuntimeError(FALSE, <<>>, 0)   \* line 72 raises
    ELSE IF ~is_archive(resp) THEN RuntimeError(FALSE, <<>>, 0)   \* line 77
    ELSE IF ~resp.content.zip THEN RuntimeError(TRUE, <<>>, 0)   \* line 79
    ELSE LET z == resp.content.archive
             names == namelist(z)
             csvs == csv_names(names)
         IN IF \E i \in 1..Len(names) : names[i] = WORLDCITIES
            THEN load_csv(z, WORLDCITIES)
            ELSE IF csvs = <<>> THEN RuntimeError(TRUE, <<>>, 0)   \* line 88
            ELSE load_csv(z, csvs[1])

InitWorld ==
    /\ city_response \in Responses(MaxEntries)
    /\ unzipped = FALSE
    /\ target = <<>>
    /\ member = 0
    /\ pc = "start"
    /\ err = "none"
    /\ IdleCity /\ IdleOld /\ IdleNew /\ IdleDol /\ IdleUscis /\ IdleMain /\ IdleImm

\* a call read_world_cities()
ReadWorldCities ==
    /\ pc = "start"
    /\ LET out == read_world_cities(city_response)
       IN /\ pc' = out.pc
          /\ err' = out.err
          /\ city_df' = out.df
          /\ unzipped' = out.unzipped
          /\ target' = out.target
          /\ member' = out.member
    /\ UNCHANGED <<city_response, visa_df, cities_arg, selected, deferred, unmapped, artifact,
                   oldVars, newVars, dolVars, uscisVars, mainVars, immVars>>

NextWorld == ReadWorldCities

SpecWorld == InitWorld /\ [][NextWorld]_vars

-----------------------------------------------------------------------------
(* Properties of the gazetteer loader *)

WorldCalled == pc # "start"

\* the member names of the payload's archive, in directory order
ArchiveNames == namelist(city_response.content.archive)

LacksWorldCities == \A i \in 1..Len(ArchiveNames) : ArchiveNames[i] # WORLDCITIES

StartsWithPK ==
    /\ Len(city_response.content.head) >= 2
    /\ city_response.content.head[1] = "P"
    /\ city_response.content.head[2] = "K"

\* status 200 and one of the two archive checks, the texts compared as written
ChecksPassAsWritten ==
    /\ city_response.error = "none"
    /\ city_response.status = 200
    /\ (contains(city_response.ctype, ZIP) \/ StartsWithPK)

\* status 200 and one of the two archive checks, the content type compared
\* without regard to letter case
ChecksPass ==
    /\ city_response.error = "none"
    /\ city_response.status = 200
    /\ (contains(lower(city_response.ctype), ZIP) \/ StartsWithPK)

\* the positions of the entries whose name ends in .csv as written
CsvAsWritten == { i \in 1..Len(ArchiveNames) : endswith(ArchiveNames[i], CSV) }

\* the positions of the entries whose name ends in .csv in any letter case
CsvAnyCase == { i \in 1..Len(ArchiveNames) : endswith(lower(ArchiveNames[i]), CSV) }

Min(S) == CHOOSE i \in S : \A j \in S : i <= j
Max(S) == CHOOSE i \in S : \A j \in S : i >= j

\* C13 as stated: decompression is attempted only when the status is 200 and
\* the content type contains "zip" or the payload starts with PK; otherwise
\* the call fails with no records; an archive without worldcities.csv has its
\* first entry whose name ends in ".csv" read, and the call fails when there
\* is no such entry.
C13_AsStated ==
    WorldCalled =>
       /\ unzipped => ChecksPassAsWritten
       /\ ~ChecksPassAsWritten => (pc = "raised" /\ city_df = <<>>)
       /\ (ChecksPassAsWritten /\ city_response.content.zip /\ LacksWorldCities) =>
            IF CsvAsWritten = {} THEN pc = "raised" /\ member = 0
            ELSE member = Min(CsvAsWritten)

\* C13 as amended: the same with the content type and the member names
\* compared without regard to letter case, and the member that is read being
\* the one named by the first name ending in .csv (of several entries with
\* that name, the last of the directory).
C13_ArchiveChecks ==
    WorldCalled =>
       /\ unzipped => ChecksPass
       /\ ~ChecksPass => (pc = "raised" /\ city_df = <<>> /\ ~unzipped)
       /\ (ChecksPass /\ city_response.content.zip /\ LacksWorldCities) =>
            IF CsvAnyCase = {} THEN pc = "raised" /\ member = 0 /\ city_df = <<>>
            ELSE /\ target = ArchiveNames[Min(CsvAnyCase)]
                 /\ member = Max({ i \in 1..Len(ArchiveNames) : ArchiveNames[i] = target })
                 /\ pc = "returned" => city_df = city_response.content.archive[member].csv.rows

\* C13's case: a response that passes on its magic bytes alone, whose archive
\* lacks worldcities.csv and has a .CSV entry after an entry that is no table;
\* the call returned the .CSV entry's records
C13_Witness ==
    /\ pc = "returned"
    /\ ~contains(lower(city_response.ctype), ZIP)
    /\ LacksWorldCities
    /\ member = 2
    /\ target = << "B", ".", "C", "S", "V" >>
    /\ ~endswith(lower(ArchiveNames[1]), CSV)
    /\ city_df # <<>>

-----------------------------------------------------------------------------
(* SpecMain: main() of data.py, from the constructor to the artifact *)

\* what requests.get(VISA_WAIT_TIME_URL) of __init__ can give: it raises, or a
\* response with a status and a page.  The page of a 200 has the "Last
\* updated:" paragraph ("dated"), lacks the div that holds it ("no_div") or
\* has the div without the label ("no_label").
WaitPageResponses ==
    { [error |-> "ConnectionError", status |-> 0, page |-> "none"],
      [error |-> "none", status |-> 503, page |-> "none"],
      [error |-> "none", status |-> 200, page |-> "dated"],
      [error |-> "none", status |-> 200, page |-> "no_div"],
      [error |-> "none", status |-> 200, page |-> "no_label"] }

\* VisaWaitTimeData.__init__: how it ends for the response res
construct(res) ==
    IF res.error # "none"
    THEN [err |-> res.error, update_date |-> None]                 \* line 56 raises
    ELSE IF res.status = 200
    THEN (IF res.page = "dated" THEN [err |-> "none", update_date |-> "2025-03-01"]
          ELSE IF res.page = "no_div"
          THEN [err |-> "AttributeError", update_date |-> None]    \* line 60: None.find
          ELSE [err |-> "IndexError", update_date |-> None])       \* line 60: split(...)[1]
    ELSE [err |-> "none", update_date |-> None]                    \* line 57: if skipped

\* what pd.read_html(VISA_WAIT_TIME_URL)[0] of read_visa_wait_times can give: the
\* request is its own (urllib's), so it raises HTTPError for a status that is
\* not 2xx, ValueError for a page without a table, or gives the table
WaitTables ==
    { [error |-> e, columns |-> <<>>, rows |-> <<>>] : e \in {"HTTPError", "ValueError"} }
       \cup { [error |-> "none", columns |-> c, rows |-> WithRows(q)] :
                c \in SeqsUpTo(HtmlColumns, 1, 1), q \in SeqsUpTo(RawNames, 1, MaxRows) }

\* main() ends with the exception e
Abort(e) == step' = "aborted" /\ pc' = "raised" /\ err' = e

InitMain ==
    /\ step = "start"
    /\ res_status = 0
    /\ update_date = None
    /\ pc = "start"
    /\ err = "none"
    /\ IdleCity /\ IdleOld /\ IdleNew /\ IdleDol /\ IdleUscis /\ IdleWorld /\ IdleImm

\* data.py:183, visa_wait_data = VisaWaitTimeData(asof_date)
Construct ==
    /\ step = "start"
    /\ \E res \in WaitPageResponses :
         LET out == construct(res)
         IN /\ res_status' = res.status
            /\ update_date' = out.update_date
            /\ IF out.err # "none" THEN Abort(out.err)
               ELSE step' = "constructed" /\ UNCHANGED <<pc, err>>
    /\ UNCHANGED <<cityVars, oldVars, newVars, dolVars, uscisVars, worldVars, immVars>>

\* data.py:184, city_df = visa_wait_data.read_world_cities()
MainReadWorldCities ==
    /\ step = "constructed"
    /\ \E resp \in Responses(1) :
         LET out == read_world_cities(resp)
         IN /\ city_response' = resp
            /\ city_df' = out.df
            /\ unzipped' = out.unzipped
            /\ target' = out.target
            /\ member' = out.member
            /\ IF out.pc = "raised" THEN Abort(out.err)
               ELSE step' = "cities_read" /\ UNCHANGED <<pc, err>>
    /\ UNCHANGED <<visa_df, cities_arg, selected, deferred, unmapped, artifact,
                   oldVars, newVars, dolVars, uscisVars, res_status, update_date, immVars>>

\* data.py:185, visa_df = visa_wait_data.read_visa_wait_times()
MainReadVisaWaitTimes ==
    /\ step = "cities_read"
    /\ \E table \in WaitTables :
         IF table.error # "none"
         THEN Abort(table.error) /\ UNCHANGED <<visa_df, newVars>>
         ELSE LET out == read_visa_wait_times(table.columns)
              IN /\ html_columns' = table.columns
                 /\ visa_columns' = out.labels
                 /\ IF out.pc = "raised"
                    THEN Abort(out.err) /\ UNCHANGED visa_df
                    ELSE /\ visa_df' = table.rows
                         /\ step' = "visa_read"
                         /\ UNCHANGED <<pc, err>>
    /\ UNCHANGED <<city_df, cities_arg, selected, deferred, unmapped, artifact,
                   oldVars, dolVars, uscisVars, worldVars, res_status, update_date, immVars>>

\* data.py:186, df = visa_wait_data.map_city_country(city_df, visa_df)
MainMapCityCountry ==
    /\ step = "visa_read"
    /\ \E out \in map_city_country(city_df, visa_df) :
         /\ deferred' = out.deferred
         /\ unmapped' = out.unmapped
         /\ artifact' = out.artifact
         /\ IF out.pc = "raised" THEN Abort(out.err)
            ELSE step' = "mapped" /\ pc' = "returned" /\ UNCHANGED err
    /\ UNCHANGED <<city_df, visa_df, cities_arg, selected,
                   oldVars, newVars, dolVars, uscisVars, worldVars, res_status, update_date, immVars>>

NextMain == Construct \/ MainReadWorldCities \/ MainReadVisaWaitTimes \/ MainMapCityCountry

SpecMain == InitMain /\ [][NextMain]_vars

\* C11: when the constructor's request for the wait-time page gets a response
\* whose status is not 200, the run never reaches a state in which
\* map_city_country has returned an artifact.
C11_NoArtifactAfterNon200 ==
    (res_status # 0 /\ res_status # 200) => step # "mapped"

\* What the code does with such a response: the constructor ends normally and
\* leaves update_date None, and the run goes on.
C11_Non200LeavesNoDate ==
    (res_status # 0 /\ res_status # 200) => (update_date = None /\ step # "start")

\* A run ends without an artifact only through an exception.
C11_AbortIsRaise ==
    step = "aborted" <=> pc = "raised"

-----------------------------------------------------------------------------
(* SpecImm: ImmigrationData.__init__ and get_uscis_data *)

MaxAnchors == 2

\* the bulletins the site has published
Bulletins == {"November 2026", "December 2026"}

\* an anchor without the href attribute
NoHref == "no href"

\* An anchor of class "btn btn-lg btn-success": its text names a bulletin and
\* its href, when it has one, is the path of that bulletin's page.
Anchors == UNION { { [text |-> b, href |-> b], [text |-> b, href |-> NoHref] } : b \in Bulletins }

\* what soup.find_all('a', class_="btn btn-lg btn-success") can give
IndexPages == SeqsUpTo(Anchors, 0, MaxAnchors)

\* the sub-header row that tables [7] and [8] of a bulletin page start with
SubHeader == [emp |-> 0, date |-> Text("Employment- based")]

\* tables [7] and [8] of the page of bulletin b: a sub-header and one row each;
\* emp is the preference category (1st, 2nd, ...), date stands for the five
\* chargeability columns
BulletinTables(b) ==
    [a |-> << SubHeader,
              [emp |-> 1, date |-> IF b = "November 2026" THEN Token(1, "JAN", 23)
                                   ELSE Token(29, "FEB", 24)] >>,
     b |-> << SubHeader, [emp |-> 1, date |-> Text("C")] >>]

\* what pd.read_html(bulletin_link) can give for the page of bulletin b: it
\* raises HTTPError, or gives the page's tables: too few of them ("short"),
\* tables [7], [8] without the six columns ("narrow"), or the expected ones
BulletinPages(b) ==
    { [shape |-> sh, tables |-> BulletinTables(b)] :
        sh \in {"HTTPError", "short", "narrow", "expected"} }

\* the anchor chosen when only the first were ever looked at (a mutation)
select_first(found) == 1

\* data_perm.py:67-70: the position in `found` of the anchor chosen; found[0]
\* of an empty list raises IndexError
select_anchor(found) ==
    IF Len(found) = 2 /\ found[2].href # NoHref THEN 2 ELSE 1

\* data_perm.py:79-80, 84-85: the table without its first row, tagged
tail_tagged(table, tag) ==
    [i \in 1..(Len(table) - 1) |->
       [emp |-> table[i + 1].emp, date |-> table[i + 1].date, table |-> tag]]

\* data_perm.py:90: sort_values("Employment-type"); rows of the same category
\* may come out in any order
sort_employment(df) ==
    { [i \in 1..Len(df) |-> df[p[i]]] :
        p \in { q \in Perms(Len(df)) :
                  \A i, j \in 1..Len(df) : i < j => df[q[i]].emp <= df[q[j]].emp } }

\* data_perm.py:87-89: the two tables concatenated, their dates converted
concat_converted(tables) ==
    LET df == tail_tagged(tables.a, "a") \o tail_tagged(tables.b, "b")
    IN [i \in 1..Len(df) |->
          [emp |-> df[i].emp, date |-> convert_date(df[i].date), table |-> df[i].table]]

\* a get_uscis_data call that raised the exception e
Raised(e, found, chosen, link) ==
    [pc |-> "raised", err |-> e, found |-> found, chosen |-> chosen,
     link |-> link, title |-> "", rows |-> <<>>]

\* get_uscis_data(title): the outcomes it can have when the index page shows
\* the anchors `found` and the linked page reads as `page`.  An outcome keeps
\* what the call found, chose and followed besides what it returned: the title
\* (title=True) or the rows of emp_based_pd.
get_uscis_data(found, page, title) ==
    IF found = <<>> THEN { Raised("IndexError", found, 0, NoHref) }           \* line 70
    ELSE LET chosen == select_anchor(found)
             anchor == found[chosen]
         IN IF anchor.href = NoHref
            THEN { Raised("KeyError", found, chosen, NoHref) }                \* line 73
            ELSE IF page.shape = "HTTPError"
            THEN { Raised("HTTPError", found, chosen, anchor.href) }               \* line 74
            ELSE IF page.shape = "short"
            THEN { Raised("IndexError", found, chosen, anchor.href) }              \* line 77
            ELSE IF page.shape = "narrow"
            THEN { Raised("ValueError", found, chosen, anchor.href) }              \* line 78
            ELSE IF title
            THEN { [pc |-> "returned", err |-> "none", found |-> found, chosen |-> chosen,
                    link |-> anchor.href, title |-> anchor.text, rows |-> <<>>] }
            ELSE { [pc |-> "returned", err |-> "none", found |-> found, chosen |-> chosen,
                    link |-> anchor.href, title |-> "", rows |-> rows] :
                     rows \in sort_employment(concat_converted(page.tables)) }

\* the page bulletin_link leads to: the page of the bulletin the href names
LinkedPages(found) ==
    IF found = <<>> \/ found[select_anchor(found)].href = NoHref
    THEN BulletinPages("November 2026")
    ELSE BulletinPages(found[select_anchor(found)].href)

\* the processing-times page at the time of a get_dol_data call
DolPages ==
    [pwd_h1b : { << [month |-> [name |-> "January", year |-> 2024], remaining |-> 100] >> },
     pwd_perm : { << [month |-> [name |-> "February", year |-> 2024], remaining |-> 50] >> },
     perm_review : ReviewQueues, calendar_days : CalendarDays]

\* ImmigrationData.__init__ ends with the exception e
ImmAbort(e) == imm_step' = "aborted" /\ pc' = "raised" /\ err' = e

InitImm ==
    /\ index_page \in IndexPages
    /\ imm_step = "start"
    /\ child_soup = Unset
    /\ emp_based_pd = Unset
    /\ emp_based_bulletin = Unset
    /\ pwd_reviews = Unset
    /\ perm_reviews = Unset
    /\ pc = "start"
    /\ err = "none"
    /\ IdleCity /\ IdleOld /\ IdleNew /\ IdleDol /\ IdleUscis /\ IdleWorld /\ IdleMain

\* the site replaces the anchors of its index page (a new bulletin is out)
PublishIndex ==
    /\ imm_step \in {"start", "pd"}
    /\ \E page \in IndexPages : page # index_page /\ index_page' = page
    /\ UNCHANGED <<pc, err, imm_step, child_soup, emp_based_pd, emp_based_bulletin,
                   pwd_reviews, perm_reviews,
                   cityVars, oldVars, newVars, dolVars, uscisVars, worldVars, mainVars>>

\* data_perm.py:23, self.emp_based_pd = self.get_uscis_data()
GetUscisPd ==
    /\ imm_step = "start"
    /\ \E page \in LinkedPages(index_page) :
         \E out \in get_uscis_data(index_page, page, FALSE) :
            /\ child_soup' = out
            /\ IF out.pc = "raised"
               THEN ImmAbort(out.err) /\ UNCHANGED emp_based_pd
               ELSE /\ emp_based_pd' = out
                    /\ imm_step' = "pd"
                    /\ UNCHANGED <<pc, err>>
    /\ UNCHANGED <<index_page, emp_based_bulletin, pwd_reviews, perm_reviews,
                   cityVars, oldVars, newVars, dolVars, uscisVars, worldVars, mainVars>>

\* data_perm.py:24, self.emp_based_bulletin = self.get_uscis_data(title=True)
GetUscisTitle ==
    /\ imm_step = "pd"
    /\ \E page \in LinkedPages(index_page) :
         \E out \in get_uscis_data(index_page, page, TRUE) :
            /\ child_soup' = out
            /\ IF out.pc = "raised"
               THEN ImmAbort(out.err) /\ UNCHANGED emp_based_bulletin
               ELSE /\ emp_based_bulletin' = out
                    /\ imm_step' = "title"
                    /\ UNCHANGED <<pc, err>>
    /\ UNCHANGED <<index_page, emp_based_pd, pwd_reviews, perm_reviews,
                   cityVars, oldVars, newVars, dolVars, uscisVars, worldVars, mainVars>>

\* data_perm.py:25, self.pwd_reviews = self.get_dol_data("PWD")
GetDolPwd ==
    /\ imm_step = "title"
    /\ \E t \in DolPages :
         \E out \in get_dol_data(t, "PWD") :
            IF out.pc = "raised"
            THEN ImmAbort(out.err) /\ UNCHANGED pwd_reviews
            ELSE /\ pwd_reviews' = out
                 /\ imm_step' = "pwd"
                 /\ UNCHANGED <<pc, err>>
    /\ UNCHANGED <<index_page, child_soup, emp_based_pd, emp_based_bulletin, perm_reviews,
                   cityVars, oldVars, newVars, dolVars, uscisVars, worldVars, mainVars>>

\* data_perm.py:26, self.perm_reviews = self.get_dol_data("PERM")
GetDolPerm ==
    /\ imm_step = "pwd"
    /\ \E t \in DolPages :
         \E out \in get_dol_data(t, "PERM") :
            IF out.pc = "raised"
            THEN ImmAbort(out.err) /\ UNCHANGED perm_reviews
            ELSE /\ perm_reviews' = out
                 /\ imm_step' = "constructed"
                 /\ pc' = "returned"
                 /\ UNCHANGED err
    /\ UNCHANGED <<index_page, child_soup, emp_based_pd, emp_based_bulletin, pwd_reviews,
                   cityVars, oldVars, newVars, dolVars, uscisVars, worldVars, mainVars>>

NextImm == PublishIndex \/ GetUscisPd \/ GetUscisTitle \/ GetDolPwd \/ GetDolPerm

SpecImm == InitImm /\ [][NextImm]_vars

-----------------------------------------------------------------------------
(* Properties of the bulletin extractor and of ImmigrationData *)

\* child_soup holds the last get_uscis_data call: what it found, chose, followed
UscisCalled == child_soup.pc # "unset"

C14_SameBulletin ==
    imm_step = "constructed" =>
       /\ emp_based_bulletin.link = emp_based_pd.link
       /\ emp_based_bulletin.title = emp_based_pd.found[emp_based_pd.chosen].text

\* What holds of the two stored fields: they agree whenever the two calls saw
\* the same anchors on the index page.
C14_SameWhenIndexSame ==
    (imm_step = "constructed" /\ emp_based_bulletin.found = emp_based_pd.found) =>
       /\ emp_based_bulletin.link = emp_based_pd.link
       /\ emp_based_bulletin.title = emp_based_pd.found[emp_based_pd.chosen].text

====
